---------------------------- MODULE Spec2Model ----------------------------
(***************************************************************************)
(* Model of contracts/BondToken.sol (one deployed bond) together with the  *)
(* stablecoin it is paid in (contracts/MockStablecoin.sol).                *)
(*                                                                         *)
(* Every external function of the contract is one action.  A call that     *)
(* reverts leaves the contract state unchanged and is recorded, with its   *)
(* revert reason, in the variable result; a call that succeeds records the *)
(* event it emits.  All values are uint256 in the contract; the values the *)
(* model reaches stay far below 2^256, so checked arithmetic never         *)
(* reverts here.                                                           *)
(*                                                                         *)
(* The bond token's inherited ERC20 functions (transfer, transferFrom,     *)
(* approve of bond tokens) are not called in the model: bond tokens change *)
(* hands only through invest and redeem.  The stablecoin is a plain ERC20: *)
(* its transfer and transferFrom revert on an insufficient balance or      *)
(* allowance and call nothing back.                                        *)
(***************************************************************************)
EXTENDS Integers, FiniteSets, Sequences, TLC

VARIABLES
    now,              \* block.timestamp
    bondInfo,         \* BondToken.bondInfo (the fields the functions read)
    owner,            \* Ownable._owner of the BondToken
    balances,         \* ERC20 balanceOf of the bond token
    investments,      \* BondToken.investments
    claimedInterest,  \* BondToken.claimedInterest
    stable,           \* stablecoin balanceOf
    allowance,        \* stablecoin allowance(investor, bond contract)
    result,           \* outcome of the last transaction: status and event
    position,         \* history: each investor's own last accrual instants
    closedBefore,     \* history: the bond was closed before the last step
    executing,        \* the nonReentrant call in progress, if any
    sample            \* an evaluation of the accrual formula on its own

\* BondPlatform (the factory contract)
VARIABLES
    bonds,            \* BondPlatform.bonds: addresses of the bond tokens
    bondTokens,       \* BondPlatform.bondTokens: bond id -> token address
    bondIds,          \* BondPlatform.bondIds: token address -> bond id
    deployed,         \* bondInfo of each BondToken the platform deployed
    created           \* history: number of createBond calls that succeeded

platformVars == << bonds, bondTokens, bondIds, deployed, created >>

\* the web client (frontend/app.js, frontend/auth.js, frontend/wallet.js)
VARIABLES
    authToken,        \* app.js: authToken
    authState,        \* auth.js: authToken and currentUser
    localStorage,     \* the three keys the two scripts store
    walletManager,    \* wallet.js: address, isConnected, hasMetaMask
    selectedBond,     \* app.js: selectedBond
    currentBondId,    \* wallet.js: currentBondId
    awaiting,         \* promises not yet settled
    request,          \* the request the last step sent to the server
    response,         \* the portfolio response the last step handled
    portfolioInvestments, \* what the portfolio section shows
    thrown,           \* the error connect() threw in the last step, if any
    adminToken,       \* auth.js: adminToken
    adminDelete,      \* the DELETE request deleteBond sent last, if any
    server            \* the server's catalog of bonds and its positions

clientVars == << authToken, authState, localStorage, walletManager,
                 selectedBond, currentBondId, awaiting, request, response,
                 portfolioInvestments, thrown, adminToken, adminDelete,
                 server >>

\* the admin panel of auth.js and the server behind it
adminVars == << adminToken, adminDelete, server >>

vars == << now, bondInfo, owner, balances, investments, claimedInterest,
           stable, allowance, result, position, closedBefore, executing,
           sample, platformVars, clientVars >>

contractVars == << bondInfo, owner, balances, investments, claimedInterest,
                   stable, allowance >>

---------------------------------------------------------------------------
(* Bounds of the model *)

\* number of clock steps the model takes
MaxTicks == 3
\* seconds per clock step: a quarter of a 365-day year
Period == 7884000
\* the unit of investment and of minting
Unit == 100
\* the stablecoin ever minted is at most MaxMinted * Unit
MaxMinted == 4
\* number of bonds the platform creates in the model
MaxBonds == 2
\* the accrual formula is evaluated on principals 0 .. MaxPrincipal
MaxPrincipal == 50
\* and on elapsed times of up to MaxQuarters periods
MaxQuarters == 4
\* the minimumInvestment of the bond the server lists; the amounts typed
\* into the investment form range over 0 .. MinimumInvestment
MinimumInvestment == 2

(* Constants of the program *)

\* 365 days, in seconds
SecondsPerYear == 31536000
\* the basis-point scale of couponRate
BasisPoints == 10000
\* coupon rate of the first sample bond, in basis points
SampleCouponRate == 450

Investors == {"alice", "bob"}
Admin == "admin"
Platform == "platform"
Bond == "bond"
\* externally owned accounts that send transactions
Callers == Investors \cup {Admin}
\* holders of stablecoin
Accounts == Investors \cup {Bond}
Amounts == {0, Unit, 2 * Unit}
\* the maturity date the bond is constructed with
MaturityDate == 2 * Period

RECURSIVE SumOver(_, _)
SumOver(f, S) ==
    IF S = {} THEN 0
    ELSE LET x == CHOOSE y \in S : TRUE
         IN  f[x] + SumOver(f, S \ {x})

---------------------------------------------------------------------------
(* Transaction outcomes *)

Ok(op, caller, amount) ==
    [op |-> op, caller |-> caller, ok |-> TRUE, err |-> "", amount |-> amount]

\* the outcome recorded by a step that is no call of the bond contract
NoCall == Ok("none", "none", 0)

Revert(op, caller, reason) ==
    [op |-> op, caller |-> caller, ok |-> FALSE, err |-> reason, amount |-> 0]

\* a reverted call: the reason is reported and every write is undone
Reverted(op, caller, reason) ==
    /\ result' = Revert(op, caller, reason)
    /\ UNCHANGED << now, contractVars >>

---------------------------------------------------------------------------
(* Views *)

\* the principal an investor holds: the bond tokens redeem() pays out 1:1
principal(investor) == balances[investor]

\* the accrual counted on the time left in the year
accrue_Remaining(balance, couponRate, timeElapsed) ==
    LET annualInterest == (balance * couponRate) \div BasisPoints
    IN  (annualInterest * (SecondsPerYear - timeElapsed)) \div SecondsPerYear

\* the accrual formula of calculateAccruedInterest: two truncating divisions
accrue(balance, couponRate, timeElapsed) ==
    LET annualInterest == (balance * couponRate) \div BasisPoints
    IN  (annualInterest * timeElapsed) \div SecondsPerYear

\* the accrual computed on the bond's total supply instead of the
\* investor's balance
accruedAt_OfTotalSupply(investor, t) ==
    IF bondInfo.totalSupply = 0 THEN 0
    ELSE accrue(bondInfo.totalSupply, bondInfo.couponRate,
                t - bondInfo.lastInterestPayment)

\* calculateAccruedInterest(investor) evaluated at block.timestamp = t
accruedAt(investor, t) ==
    IF balances[investor] = 0 THEN 0
    ELSE accrue(balances[investor], bondInfo.couponRate,
                t - bondInfo.lastInterestPayment)

calculateAccruedInterest(investor) == accruedAt(investor, now)

---------------------------------------------------------------------------
(* Construction *)

\* the bondInfo the BondToken constructor writes
constructor(_couponRate, _maturityDate) ==
    [ couponRate          |-> _couponRate,
      maturityDate        |-> _maturityDate,
      issueDate           |-> now,
      lastInterestPayment |-> now,
      totalSupply         |-> 0,
      isActive            |-> TRUE ]

\* the zero address: the default value of an address in a mapping
AddressZero == 0

\* the address of the n-th contract the platform deploys
AddressOf(n) == n

\* BondPlatform after its constructor: no bond, all mappings at default
InitPlatform ==
    /\ bonds = << >>
    /\ bondTokens = [id \in 0 .. MaxBonds |-> AddressZero]
    /\ bondIds = [a \in 1 .. MaxBonds |-> 0]
    /\ deployed = << >>
    /\ created = 0

(* The web client *)

\* JavaScript null; a template literal prints it as "null"
Null == "null"
\* an optional value that is not a string: absent, or present
None == << >>
Some(x) == << x >>

\* the access tokens the server issues
Tokens == {"token1", "token2"}
User == "user"
\* the accounts of the MetaMask extension
WalletAddresses == {"0xA", "0xB"}
\* walletManager.simulatedWallet.address
SimulatedAddress == "0x742d35Cc6634C0532925a3b844Bc9e7595f0bEb"
\* '0x' + Math.random().toString(16).slice(2): an address of no wallet
Fabricated == "0xrandom"
\* the ids of the bonds the server lists
BondIds == {"1"}
\* GET /bonds/{bondId}
ServerBond(bondId) ==
    [id |-> bondId, minimumInvestment |-> MinimumInvestment]
\* the amounts typed into the investment form
FormAmounts == 0 .. MinimumInvestment

\* error.code of a request MetaMask already has pending
RequestPending == -32002
\* error.code of a request the user rejected
UserRejected == 4001
\* error.code of any other failure of the provider
InternalError == -32603
\* the errors eth_requestAccounts rejects with: a code, and whether the
\* message includes 'User denied'
ProviderErrors ==
    { [code |-> RequestPending, denied |-> FALSE],
      [code |-> UserRejected, denied |-> FALSE],
      [code |-> InternalError, denied |-> TRUE],
      [code |-> InternalError, denied |-> FALSE] }

\* HTTP statuses of the portfolio endpoint
StatusOk == 200
Unauthorized == 401
Forbidden == 403
Statuses == {StatusOk, Unauthorized, Forbidden}

\* `Bearer ${token}`
Bearer(token) == "Bearer " \o token
\* a request sent without an Authorization header
NoHeader == ""

NoRequest ==
    [kind |-> "none", by |-> "none", address |-> Null,
     authorization |-> NoHeader, amount |-> 0, bondId |-> Null]
PortfolioRequest(by, address, authorization) ==
    [kind |-> "portfolio", by |-> by, address |-> address,
     authorization |-> authorization, amount |-> 0, bondId |-> Null]
InvestRequest(by, address, authorization, amount, bondId) ==
    [kind |-> "invest", by |-> by, address |-> address,
     authorization |-> authorization, amount |-> amount, bondId |-> bondId]

NoResponse == [by |-> "none", status |-> 0]

\* nothing pending
Settled ==
    [connect |-> "none", submit |-> None, invest |-> "none",
     portfolio |-> None]

\* the content of #portfolioInvestments: a message, or the portfolio of
\* an address
Message(text) == [text |-> text, owner |-> Null]
Portfolio(address) == [text |-> "", owner |-> address]

\* new WalletManager()
NewWalletManager(hasMetaMask) ==
    [address |-> Null, isConnected |-> FALSE, hasMetaMask |-> hasMetaMask]

\* the positions the server keeps for one bond
NoPositions == [i \in Investors |-> 0]

\* the server as started: it lists the bonds of BondIds, none invested in
NewServer ==
    [bonds |-> BondIds, principal |-> [b \in BondIds |-> NoPositions]]

\* the principal investors hold in a bond of the server
outstanding(srv, bondId) == SumOver(srv.principal[bondId], Investors)

\* the page after its first load in a browser with nothing stored: the
\* DOMContentLoaded handlers find no token and no connected wallet
InitClient ==
    /\ authToken = Null
    /\ authState = [authToken |-> Null, currentUser |-> Null]
    /\ localStorage = [authToken |-> Null, bond_platform_token |-> Null,
                       bond_platform_user |-> Null]
    /\ walletManager = NewWalletManager(FALSE)
    /\ selectedBond = None
    /\ currentBondId = Null
    /\ awaiting = Settled
    /\ request = NoRequest
    /\ response = NoResponse
    /\ portfolioInvestments =
           Message("Connect your wallet to view your portfolio")
    /\ thrown = None
    /\ adminToken = Null
    /\ adminDelete = None
    /\ server = NewServer

\* no evaluation of the accrual formula has been asked for
NoSample == [P |-> 0, R |-> 0, E |-> 0, accrued |-> -1]

\* the contracts as deployed and the client as loaded
InitContracts ==
    /\ now = 0
    /\ bondInfo = constructor(SampleCouponRate, MaturityDate)
    /\ owner \in {Admin, Platform}
    /\ balances = [i \in Investors |-> 0]
    /\ investments = [i \in Investors |-> 0]
    /\ claimedInterest = [i \in Investors |-> 0]
    /\ stable = [a \in Accounts |-> 0]
    /\ allowance = [i \in Investors |-> 0]
    /\ result = NoCall
    /\ position = [i \in Investors |->
                     [lastAccrual |-> 0, lastClaim |-> -1, redeemed |-> FALSE]]
    /\ closedBefore = FALSE
    /\ executing = None
    /\ InitPlatform
    /\ InitClient

Init ==
    /\ InitContracts
    /\ sample = NoSample

---------------------------------------------------------------------------
(* MockStablecoin *)

\* mint(to, amount): anyone may mint
mint(to, amount) ==
    /\ SumOver(stable, Accounts) + amount <= MaxMinted * Unit
    /\ stable' = [stable EXCEPT ![to] = @ + amount]
    /\ result' = NoCall
    /\ UNCHANGED << now, bondInfo, owner, balances, investments,
                    claimedInterest, allowance >>

\* approve(bond contract, amount) by an investor
approve(caller, amount) ==
    /\ allowance' = [allowance EXCEPT ![caller] = amount]
    /\ result' = NoCall
    /\ UNCHANGED << now, bondInfo, owner, balances, investments,
                    claimedInterest, stable >>

---------------------------------------------------------------------------
(* BondToken *)

\* invest without the isActive require
invest_NoActiveCheck(caller, stablecoinAmount) ==
    IF ~(now < bondInfo.maturityDate)
    THEN Reverted("invest", caller, "Bond has matured")
    ELSE IF ~(stablecoinAmount > 0)
    THEN Reverted("invest", caller, "Investment amount must be greater than 0")
    ELSE IF allowance[caller] < stablecoinAmount
            \/ stable[caller] < stablecoinAmount
    THEN Reverted("invest", caller, "ERC20: transferFrom reverted")
    ELSE /\ stable' = [stable EXCEPT ![caller] = @ - stablecoinAmount,
                                     ![Bond] = @ + stablecoinAmount]
         /\ allowance' = [allowance EXCEPT ![caller] = @ - stablecoinAmount]
         /\ balances' = [balances EXCEPT ![caller] = @ + stablecoinAmount]
         /\ investments' =
                [investments EXCEPT ![caller] = @ + stablecoinAmount]
         /\ bondInfo' = [bondInfo EXCEPT !.totalSupply = @ + stablecoinAmount]
         /\ result' = Ok("invest", caller, stablecoinAmount)
         /\ UNCHANGED << now, owner, claimedInterest >>

invest(caller, stablecoinAmount) ==
    IF ~bondInfo.isActive
    THEN Reverted("invest", caller, "Bond is no longer accepting investments")
    ELSE IF ~(now < bondInfo.maturityDate)
    THEN Reverted("invest", caller, "Bond has matured")
    ELSE IF ~(stablecoinAmount > 0)
    THEN Reverted("invest", caller, "Investment amount must be greater than 0")
    ELSE IF allowance[caller] < stablecoinAmount
            \/ stable[caller] < stablecoinAmount
    THEN Reverted("invest", caller, "ERC20: transferFrom reverted")
    ELSE LET tokensToMint == stablecoinAmount
         IN  /\ stable' = [stable EXCEPT ![caller] = @ - stablecoinAmount,
                                         ![Bond] = @ + stablecoinAmount]
             /\ allowance' = [allowance EXCEPT ![caller] = @ - stablecoinAmount]
             /\ balances' = [balances EXCEPT ![caller] = @ + tokensToMint]
             /\ investments' =
                    [investments EXCEPT ![caller] = @ + stablecoinAmount]
             /\ bondInfo' =
                    [bondInfo EXCEPT !.totalSupply = @ + tokensToMint]
             /\ result' = Ok("invest", caller, stablecoinAmount)
             /\ UNCHANGED << now, owner, claimedInterest >>

\* claimInterest that needs the bond to be open for investment
claimInterest_NeedsActive(caller) ==
    IF ~bondInfo.isActive
    THEN Reverted("claimInterest", caller,
                  "Bond is no longer accepting investments")
    ELSE IF ~(balances[caller] > 0)
    THEN Reverted("claimInterest", caller, "No bond tokens held")
    ELSE LET interestAmount == calculateAccruedInterest(caller)
         IN  IF ~(interestAmount > 0)
             THEN Reverted("claimInterest", caller, "No interest to claim")
             ELSE IF stable[Bond] < interestAmount
             THEN Reverted("claimInterest", caller, "ERC20: transfer reverted")
             ELSE /\ bondInfo' = [bondInfo EXCEPT !.lastInterestPayment = now]
                  /\ claimedInterest' =
                         [claimedInterest EXCEPT ![caller] = @ + interestAmount]
                  /\ stable' = [stable EXCEPT ![Bond] = @ - interestAmount,
                                              ![caller] = @ + interestAmount]
                  /\ result' = Ok("claimInterest", caller, interestAmount)
                  /\ UNCHANGED << now, owner, balances, investments, allowance >>

\* claimInterest whose own copy of the formula counts from the issue date
claimInterest_SinceIssue(caller) ==
    IF ~(balances[caller] > 0)
    THEN Reverted("claimInterest", caller, "No bond tokens held")
    ELSE LET interestAmount == accrue(balances[caller], bondInfo.couponRate,
                                      now - bondInfo.issueDate)
         IN  IF ~(interestAmount > 0)
             THEN Reverted("claimInterest", caller, "No interest to claim")
             ELSE IF stable[Bond] < interestAmount
             THEN Reverted("claimInterest", caller, "ERC20: transfer reverted")
             ELSE /\ bondInfo' = [bondInfo EXCEPT !.lastInterestPayment = now]
                  /\ claimedInterest' =
                         [claimedInterest EXCEPT ![caller] = @ + interestAmount]
                  /\ stable' = [stable EXCEPT ![Bond] = @ - interestAmount,
                                              ![caller] = @ + interestAmount]
                  /\ result' = Ok("claimInterest", caller, interestAmount)
                  /\ UNCHANGED << now, owner, balances, investments, allowance >>

\* claimInterest that forgets to move lastInterestPayment
claimInterest_NoStamp(caller) ==
    IF ~(balances[caller] > 0)
    THEN Reverted("claimInterest", caller, "No bond tokens held")
    ELSE LET interestAmount == calculateAccruedInterest(caller)
         IN  IF ~(interestAmount > 0)
             THEN Reverted("claimInterest", caller, "No interest to claim")
             ELSE IF stable[Bond] < interestAmount
             THEN Reverted("claimInterest", caller, "ERC20: transfer reverted")
             ELSE /\ claimedInterest' =
                         [claimedInterest EXCEPT ![caller] = @ + interestAmount]
                  /\ stable' = [stable EXCEPT ![Bond] = @ - interestAmount,
                                              ![caller] = @ + interestAmount]
                  /\ result' = Ok("claimInterest", caller, interestAmount)
                  /\ UNCHANGED << now, bondInfo, owner, balances, investments,
                                  allowance >>

claimInterest(caller) ==
    IF ~(balances[caller] > 0)
    THEN Reverted("claimInterest", caller, "No bond tokens held")
    ELSE LET interestAmount == calculateAccruedInterest(caller)
         IN  IF ~(interestAmount > 0)
             THEN Reverted("claimInterest", caller, "No interest to claim")
             ELSE IF stable[Bond] < interestAmount
             THEN Reverted("claimInterest", caller, "ERC20: transfer reverted")
             ELSE /\ bondInfo' = [bondInfo EXCEPT !.lastInterestPayment = now]
                  /\ claimedInterest' =
                         [claimedInterest EXCEPT ![caller] = @ + interestAmount]
                  /\ stable' = [stable EXCEPT ![Bond] = @ - interestAmount,
                                              ![caller] = @ + interestAmount]
                  /\ result' = Ok("claimInterest", caller, interestAmount)
                  /\ UNCHANGED << now, owner, balances, investments, allowance >>

\* the body of redeem after its two requires, with the burn and the payout
\* as parameters
redeemWith(caller, burned, paid) ==
    IF stable[Bond] < paid
    THEN Reverted("redeem", caller, "ERC20: transfer reverted")
    ELSE /\ balances' = [balances EXCEPT ![caller] = @ - burned]
         /\ stable' = [stable EXCEPT ![Bond] = @ - paid, ![caller] = @ + paid]
         /\ result' = Ok("redeem", caller, paid)
         /\ UNCHANGED << now, bondInfo, owner, investments, claimedInterest,
                         allowance >>

\* redeem that pays out without burning the tokens
redeem_NoBurn(caller) ==
    IF ~(now >= bondInfo.maturityDate)
    THEN Reverted("redeem", caller, "Bond has not matured yet")
    ELSE IF ~(balances[caller] > 0)
    THEN Reverted("redeem", caller, "No tokens to redeem")
    ELSE redeemWith(caller, 0, balances[caller])

\* redeem without the maturity check
redeem_NoMaturityCheck(caller) ==
    IF ~(balances[caller] > 0)
    THEN Reverted("redeem", caller, "No tokens to redeem")
    ELSE redeemWith(caller, balances[caller], balances[caller])

\* redeem that adds the accrued interest to the payout
redeem_WithInterest(caller) ==
    IF ~(now >= bondInfo.maturityDate)
    THEN Reverted("redeem", caller, "Bond has not matured yet")
    ELSE IF ~(balances[caller] > 0)
    THEN Reverted("redeem", caller, "No tokens to redeem")
    ELSE redeemWith(caller, balances[caller],
                    balances[caller] + calculateAccruedInterest(caller))

\* redeem that also clears the caller's claimedInterest record
redeem_ClearsClaimed(caller) ==
    IF ~(now >= bondInfo.maturityDate)
    THEN Reverted("redeem", caller, "Bond has not matured yet")
    ELSE IF ~(balances[caller] > 0)
    THEN Reverted("redeem", caller, "No tokens to redeem")
    ELSE IF stable[Bond] < balances[caller]
    THEN Reverted("redeem", caller, "ERC20: transfer reverted")
    ELSE /\ balances' = [balances EXCEPT ![caller] = 0]
         /\ claimedInterest' = [claimedInterest EXCEPT ![caller] = 0]
         /\ stable' = [stable EXCEPT ![Bond] = @ - balances[caller],
                                     ![caller] = @ + balances[caller]]
         /\ result' = Ok("redeem", caller, balances[caller])
         /\ UNCHANGED << now, bondInfo, owner, investments, allowance >>

\* redeem that does not check the stablecoin transfer: when the transfer
\* fails the burn made before it stays in place
redeem_UncheckedTransfer(caller) ==
    IF ~(now >= bondInfo.maturityDate)
    THEN Reverted("redeem", caller, "Bond has not matured yet")
    ELSE IF ~(balances[caller] > 0)
    THEN Reverted("redeem", caller, "No tokens to redeem")
    ELSE IF stable[Bond] < balances[caller]
    THEN /\ balances' = [balances EXCEPT ![caller] = 0]
         /\ result' = Revert("redeem", caller, "ERC20: transfer reverted")
         /\ UNCHANGED << now, bondInfo, owner, investments, claimedInterest,
                         stable, allowance >>
    ELSE redeemWith(caller, balances[caller], balances[caller])

redeem(caller) ==
    IF ~(now >= bondInfo.maturityDate)
    THEN Reverted("redeem", caller, "Bond has not matured yet")
    ELSE IF ~(balances[caller] > 0)
    THEN Reverted("redeem", caller, "No tokens to redeem")
    ELSE LET tokenBalance == balances[caller]
             redemptionAmount == tokenBalance
         IN  IF stable[Bond] < redemptionAmount
             THEN Reverted("redeem", caller, "ERC20: transfer reverted")
             ELSE /\ balances' = [balances EXCEPT ![caller] = @ - tokenBalance]
                  /\ stable' = [stable EXCEPT ![Bond] = @ - redemptionAmount,
                                              ![caller] = @ + redemptionAmount]
                  /\ result' = Ok("redeem", caller, redemptionAmount)
                  /\ UNCHANGED << now, bondInfo, owner, investments,
                                  claimedInterest, allowance >>

\* closeBond without onlyOwner
closeBond_AnyCaller(caller) ==
    /\ bondInfo' = [bondInfo EXCEPT !.isActive = FALSE]
    /\ result' = Ok("closeBond", caller, 0)
    /\ UNCHANGED << now, owner, balances, investments, claimedInterest,
                    stable, allowance >>

\* closeBond that refuses a bond already closed
closeBond_OnlyOnce(caller) ==
    IF caller # owner
    THEN Reverted("closeBond", caller, "Ownable: caller is not the owner")
    ELSE IF ~bondInfo.isActive
    THEN Reverted("closeBond", caller, "Bond already closed")
    ELSE /\ bondInfo' = [bondInfo EXCEPT !.isActive = FALSE]
         /\ result' = Ok("closeBond", caller, 0)
         /\ UNCHANGED << now, owner, balances, investments, claimedInterest,
                         stable, allowance >>

\* closeBond written as a switch: a second call opens the bond again
closeBond_Toggles(caller) ==
    IF caller # owner
    THEN Reverted("closeBond", caller, "Ownable: caller is not the owner")
    ELSE /\ bondInfo' = [bondInfo EXCEPT !.isActive = ~@]
         /\ result' = Ok("closeBond", caller, 0)
         /\ UNCHANGED << now, owner, balances, investments, claimedInterest,
                         stable, allowance >>

closeBond(caller) ==
    IF caller # owner
    THEN Reverted("closeBond", caller, "Ownable: caller is not the owner")
    ELSE /\ bondInfo' = [bondInfo EXCEPT !.isActive = FALSE]
         /\ result' = Ok("closeBond", caller, 0)
         /\ UNCHANGED << now, owner, balances, investments, claimedInterest,
                         stable, allowance >>

---------------------------------------------------------------------------
(* History of each investor's own position, kept beside the contract:      *)
(* lastAccrual is the instant of the investor's own last successful        *)
(* invest, claimInterest or redeem; lastClaim that of the last successful  *)
(* claimInterest (-1 if none); redeemed holds from a successful redeem     *)
(* until the investor's next successful invest.                            *)

Record ==
    /\ position' =
         [i \in Investors |->
            IF result'.ok /\ result'.caller = i
               /\ result'.op \in {"invest", "claimInterest", "redeem"}
            THEN [ lastAccrual |-> now,
                   lastClaim   |-> IF result'.op = "claimInterest" THEN now
                                   ELSE position[i].lastClaim,
                   redeemed    |-> result'.op = "redeem" ]
            ELSE position[i]]
    /\ closedBefore' = ~bondInfo.isActive

---------------------------------------------------------------------------
(* Next-state relation *)

\* a step in which the platform is not called
PlatformIdle == UNCHANGED platformVars

\* a step in which the web client handles no event
ClientIdle == UNCHANGED clientVars

\* a step in which the bond token and the stablecoin are not called
BondIdle ==
    UNCHANGED << contractVars, position, closedBefore, executing, sample >>

\* a transaction that calls the bond token or the stablecoin once: the
\* history is brought up to date and nothing else moves
BondStep ==
    /\ Record
    /\ UNCHANGED << executing, sample >>
    /\ PlatformIdle
    /\ ClientIdle

Tick ==
    /\ now < MaxTicks * Period
    /\ now' = now + Period
    /\ result' = NoCall
    /\ closedBefore' = ~bondInfo.isActive
    /\ UNCHANGED << contractVars, position, executing, sample >>
    /\ PlatformIdle
    /\ ClientIdle

Mint == \E to \in Accounts : mint(to, 2 * Unit) /\ BondStep

Approve == \E c \in Investors : approve(c, 2 * Unit) /\ BondStep

Invest == \E c \in Investors, a \in Amounts : invest(c, a) /\ BondStep

ClaimInterest == \E c \in Investors : claimInterest(c) /\ BondStep

Redeem == \E c \in Investors : redeem(c) /\ BondStep

CloseBond == \E c \in Callers : closeBond(c) /\ BondStep

Next ==
    \/ Tick
    \/ Mint
    \/ Approve
    \/ Invest
    \/ ClaimInterest
    \/ Redeem
    \/ CloseBond

Spec == Init /\ [][Next]_vars

TypeOK ==
    /\ now \in 0 .. MaxTicks * Period
    /\ balances \in [Investors -> Nat]
    /\ investments \in [Investors -> Nat]
    /\ claimedInterest \in [Investors -> Nat]
    /\ stable \in [Accounts -> Nat]
    /\ allowance \in [Investors -> Nat]
    /\ result.ok \in BOOLEAN

---------------------------------------------------------------------------
(* Reentrancy.  The stablecoin is whatever IERC20 the constructor was      *)
(* given, and a token with transfer hooks hands control to other code      *)
(* during transfer and transferFrom.  Here invest, claimInterest and       *)
(* redeem are followed in three parts: the function up to its external     *)
(* call, the calls made into the BondToken while that call runs, and the   *)
(* rest of the function once the call returns.  The whole is one           *)
(* transaction: nothing else runs in between, and a revert of the outer    *)
(* function undoes what the nested calls wrote.                            *)

\* ReentrancyGuard._status
_status == IF executing = None THEN "NOT_ENTERED" ELSE "ENTERED"

\* the call in progress, with the values a revert puts back
Frame(op, caller, amount) ==
    [op |-> op, caller |-> caller, amount |-> amount,
     saved |-> [bondInfo |-> bondInfo, balances |-> balances,
                claimedInterest |-> claimedInterest]]

\* invest up to stablecoin.transferFrom
enterInvest(caller, stablecoinAmount) ==
    IF ~bondInfo.isActive
    THEN /\ Reverted("invest", caller,
                     "Bond is no longer accepting investments")
         /\ UNCHANGED executing
    ELSE IF ~(now < bondInfo.maturityDate)
    THEN Reverted("invest", caller, "Bond has matured") /\ UNCHANGED executing
    ELSE IF ~(stablecoinAmount > 0)
    THEN /\ Reverted("invest", caller,
                     "Investment amount must be greater than 0")
         /\ UNCHANGED executing
    ELSE /\ executing' = Some(Frame("invest", caller, stablecoinAmount))
         /\ result' = NoCall
         /\ UNCHANGED << now, contractVars >>

\* claimInterest up to stablecoin.transfer
enterClaimInterest(caller) ==
    IF ~(balances[caller] > 0)
    THEN /\ Reverted("claimInterest", caller, "No bond tokens held")
         /\ UNCHANGED executing
    ELSE LET interestAmount == calculateAccruedInterest(caller)
         IN  IF ~(interestAmount > 0)
             THEN /\ Reverted("claimInterest", caller, "No interest to claim")
                  /\ UNCHANGED executing
             ELSE /\ executing' =
                        Some(Frame("claimInterest", caller, interestAmount))
                  /\ bondInfo' = [bondInfo EXCEPT !.lastInterestPayment = now]
                  /\ claimedInterest' =
                        [claimedInterest EXCEPT ![caller] = @ + interestAmount]
                  /\ result' = NoCall
                  /\ UNCHANGED << now, owner, balances, investments, stable,
                                  allowance >>

\* redeem up to stablecoin.transfer
enterRedeem(caller) ==
    IF ~(now >= bondInfo.maturityDate)
    THEN /\ Reverted("redeem", caller, "Bond has not matured yet")
         /\ UNCHANGED executing
    ELSE IF ~(balances[caller] > 0)
    THEN /\ Reverted("redeem", caller, "No tokens to redeem")
         /\ UNCHANGED executing
    ELSE /\ executing' = Some(Frame("redeem", caller, balances[caller]))
         /\ balances' = [balances EXCEPT ![caller] = 0]
         /\ result' = NoCall
         /\ UNCHANGED << now, bondInfo, owner, investments, claimedInterest,
                         stable, allowance >>

\* the nonReentrant modifier met while _status is ENTERED
nonReentrant(op, caller) ==
    Reverted(op, caller, "ReentrancyGuard: reentrant call")

\* the outer function reverts: its writes and those of the nested calls
\* are undone
revertCall(f, reason) ==
    /\ bondInfo' = f.saved.bondInfo
    /\ balances' = f.saved.balances
    /\ claimedInterest' = f.saved.claimedInterest
    /\ result' = Revert(f.op, f.caller, reason)
    /\ UNCHANGED << now, owner, investments, stable, allowance >>

\* the external call returns and the function runs to its end
returnCall(f) ==
    IF f.op = "invest"
    THEN IF allowance[f.caller] < f.amount \/ stable[f.caller] < f.amount
         THEN revertCall(f, "ERC20: transferFrom reverted")
         ELSE /\ stable' = [stable EXCEPT ![f.caller] = @ - f.amount,
                                          ![Bond] = @ + f.amount]
              /\ allowance' = [allowance EXCEPT ![f.caller] = @ - f.amount]
              /\ balances' = [balances EXCEPT ![f.caller] = @ + f.amount]
              /\ investments' = [investments EXCEPT ![f.caller] = @ + f.amount]
              /\ bondInfo' = [bondInfo EXCEPT !.totalSupply = @ + f.amount]
              /\ result' = Ok("invest", f.caller, f.amount)
              /\ UNCHANGED << now, owner, claimedInterest >>
    ELSE IF stable[Bond] < f.amount
         THEN revertCall(f, "ERC20: transfer reverted")
         ELSE /\ stable' = [stable EXCEPT ![Bond] = @ - f.amount,
                                          ![f.caller] = @ + f.amount]
              /\ result' = Ok(f.op, f.caller, f.amount)
              /\ UNCHANGED << now, bondInfo, owner, balances, investments,
                              claimedInterest, allowance >>

\* a step of a transaction under way
CallStep ==
    /\ Record
    /\ UNCHANGED sample
    /\ PlatformIdle
    /\ ClientIdle

EnterCall ==
    /\ _status = "NOT_ENTERED"
    /\ \E c \in Investors :
          \/ \E a \in Amounts : enterInvest(c, a)
          \/ enterClaimInterest(c)
          \/ enterRedeem(c)
    /\ CallStep

\* the code the stablecoin hands control to calls back into the BondToken:
\* the guarded functions as the caller of the outer function, closeBond as
\* any account
NestedCall ==
    /\ _status = "ENTERED"
    /\ \/ \E op \in {"invest", "claimInterest", "redeem"} :
             nonReentrant(op, executing[1].caller)
       \/ \E c \in Callers : closeBond(c)
    /\ UNCHANGED executing
    /\ CallStep

ReturnCall ==
    /\ _status = "ENTERED"
    /\ returnCall(executing[1])
    /\ executing' = None
    /\ CallStep

ReentrantNext ==
    \/ _status = "NOT_ENTERED" /\ Tick
    \/ _status = "NOT_ENTERED" /\ Mint
    \/ _status = "NOT_ENTERED" /\ Approve
    \/ _status = "NOT_ENTERED" /\ CloseBond
    \/ EnterCall
    \/ NestedCall
    \/ ReturnCall

SpecReentrant == Init /\ [][ReentrantNext]_vars

---------------------------------------------------------------------------
(* The accrual formula on its own: an evaluation starts from a balance P,  *)
(* a coupon rate R and an elapsed time E, and is computed as               *)
(* calculateAccruedInterest computes it.                                   *)

Principals == 0 .. MaxPrincipal
Rates == {0, 1, SampleCouponRate, BasisPoints}
Elapsed == {k * Period : k \in 0 .. MaxQuarters} \cup {1, SecondsPerYear}

InitAccrue ==
    /\ InitContracts
    /\ sample \in [P : Principals, R : Rates, E : Elapsed, accrued : {-1}]

Evaluate ==
    /\ sample.accrued = -1
    /\ sample' = [sample EXCEPT
                     !.accrued = accrue(sample.P, sample.R, sample.E)]
    /\ result' = NoCall
    /\ UNCHANGED << now, contractVars, position, closedBefore, executing >>
    /\ PlatformIdle
    /\ ClientIdle

AccrueNext == Evaluate

SpecAccrue == InitAccrue /\ [][AccrueNext]_vars

---------------------------------------------------------------------------
(* BondPlatform *)

\* getBondCount(): bonds.length
getBondCount == Len(bonds)

\* the coupon rates createBond is called with: one in range, one above it
CouponRates == {SampleCouponRate, BasisPoints + 1}
\* the maturity dates createBond is called with
MaturityDates == {Period, MaturityDate}

\* createBond returning the length of bonds after the push
createBond_IdAfterPush(caller, _couponRate, _maturityDate) ==
    IF caller # Admin
    THEN /\ result' = Revert("createBond", caller,
                             "Ownable: caller is not the owner")
         /\ UNCHANGED << now, bonds, bondTokens, bondIds, deployed >>
    ELSE LET bondTokenAddress == AddressOf(Len(deployed) + 1)
             bondId == Len(bonds)
         IN  /\ deployed' =
                    Append(deployed, constructor(_couponRate, _maturityDate))
             /\ bonds' = Append(bonds, bondTokenAddress)
             /\ bondTokens' = [bondTokens EXCEPT ![bondId] = bondTokenAddress]
             /\ bondIds' = [bondIds EXCEPT ![bondTokenAddress] = bondId]
             /\ result' = Ok("createBond", caller, Len(bonds'))
             /\ UNCHANGED now

\* createBond storing the new bond over the last one instead of pushing it
createBond_ReplacesLast(caller, _couponRate, _maturityDate) ==
    IF caller # Admin
    THEN /\ result' = Revert("createBond", caller,
                             "Ownable: caller is not the owner")
         /\ UNCHANGED << now, bonds, bondTokens, bondIds, deployed >>
    ELSE LET bondTokenAddress == AddressOf(Len(deployed) + 1)
             bondId == IF Len(bonds) = 0 THEN 0 ELSE Len(bonds) - 1
         IN  /\ deployed' =
                    Append(deployed, constructor(_couponRate, _maturityDate))
             /\ bonds' = IF Len(bonds) = 0
                         THEN Append(bonds, bondTokenAddress)
                         ELSE [bonds EXCEPT ![bondId + 1] = bondTokenAddress]
             /\ bondTokens' = [bondTokens EXCEPT ![bondId] = bondTokenAddress]
             /\ bondIds' = [bondIds EXCEPT ![bondTokenAddress] = bondId]
             /\ result' = Ok("createBond", caller, bondId)
             /\ UNCHANGED now

\* createBond taking the id after the push: the two mappings are written
\* under the new length
createBond_IdReadAfterPush(caller, _couponRate, _maturityDate) ==
    IF caller # Admin
    THEN /\ result' = Revert("createBond", caller,
                             "Ownable: caller is not the owner")
         /\ UNCHANGED << now, bonds, bondTokens, bondIds, deployed >>
    ELSE LET bondTokenAddress == AddressOf(Len(deployed) + 1)
             bondId == Len(bonds) + 1
         IN  /\ deployed' =
                    Append(deployed, constructor(_couponRate, _maturityDate))
             /\ bonds' = Append(bonds, bondTokenAddress)
             /\ bondTokens' = [bondTokens EXCEPT ![bondId] = bondTokenAddress]
             /\ bondIds' = [bondIds EXCEPT ![bondTokenAddress] = bondId]
             /\ result' = Ok("createBond", caller, bondId)
             /\ UNCHANGED now

\* createBond(_bondName, _issuer, _faceValue, _couponRate, _maturityDate):
\* onlyOwner; deploys a BondToken and registers it under the next id
createBond(caller, _couponRate, _maturityDate) ==
    IF caller # Admin
    THEN /\ result' = Revert("createBond", caller,
                             "Ownable: caller is not the owner")
         /\ UNCHANGED << now, bonds, bondTokens, bondIds, deployed >>
    ELSE LET bondTokenAddress == AddressOf(Len(deployed) + 1)
             bondId == Len(bonds)
         IN  /\ deployed' =
                    Append(deployed, constructor(_couponRate, _maturityDate))
             /\ bonds' = Append(bonds, bondTokenAddress)
             /\ bondTokens' = [bondTokens EXCEPT ![bondId] = bondTokenAddress]
             /\ bondIds' = [bondIds EXCEPT ![bondTokenAddress] = bondId]
             /\ result' = Ok("createBond", caller, bondId)
             /\ UNCHANGED now

\* getBondToken whose bound is off by one
getBondToken_OffByOne(caller, bondId) ==
    /\ result' = IF bondId <= Len(bonds)
                 THEN Ok("getBondToken", caller, bondTokens[bondId])
                 ELSE Revert("getBondToken", caller, "Bond ID does not exist")
    /\ UNCHANGED << now, bonds, bondTokens, bondIds, deployed >>

\* getBondToken(bondId): the registered address, or a revert
getBondToken(caller, bondId) ==
    /\ result' = IF bondId < Len(bonds)
                 THEN Ok("getBondToken", caller, bondTokens[bondId])
                 ELSE Revert("getBondToken", caller, "Bond ID does not exist")
    /\ UNCHANGED << now, bonds, bondTokens, bondIds, deployed >>

CreateBond ==
    /\ Len(bonds) < MaxBonds
    /\ \E c \in Callers, r \in CouponRates, m \in MaturityDates :
           createBond(c, r, m)
    /\ created' = IF result'.ok THEN created + 1 ELSE created
    /\ BondIdle
    /\ ClientIdle

GetBondToken ==
    /\ \E c \in Callers, id \in 0 .. MaxBonds : getBondToken(c, id)
    /\ UNCHANGED created
    /\ BondIdle
    /\ ClientIdle

PlatformNext ==
    \/ Tick
    \/ CreateBond
    \/ GetBondToken

SpecPlatform == Init /\ [][PlatformNext]_vars

\* the administrative functions of the two contracts, called by any account
AdminNext ==
    \/ Tick
    \/ CreateBond
    \/ CloseBond

SpecAdmin == Init /\ [][AdminNext]_vars

---------------------------------------------------------------------------
(* The web client: event handlers *)

\* auth.js isAuthenticated()
isAuthenticated ==
    authState.authToken # Null /\ authState.currentUser # Null

\* auth.js getAuthToken()
getAuthToken == authState.authToken

\* walletManager.disconnect()
disconnect(wm) == [wm EXCEPT !.address = Null, !.isConnected = FALSE]

\* a handler that sends nothing and leaves the portfolio section alone
Quiet(aw) ==
    /\ request' = NoRequest
    /\ awaiting' = aw
    /\ UNCHANGED portfolioInvestments

\* app.js loadUserPortfolio(), up to its fetch, run with the token and
\* the wallet the handler has left behind
loadUserPortfolio(token, wm, aw) ==
    IF token = Null
    THEN /\ request' = NoRequest
         /\ awaiting' = aw
         /\ portfolioInvestments' =
                Message("Please log in to view your portfolio")
    ELSE IF wm.address = Null
    THEN /\ request' = NoRequest
         /\ awaiting' = aw
         /\ portfolioInvestments' =
                Message("Please connect your wallet to view your portfolio")
    ELSE /\ request' = PortfolioRequest("loadUserPortfolio", wm.address,
                                        Bearer(token))
         /\ awaiting' = [aw EXCEPT !.portfolio =
                            Some([by |-> "loadUserPortfolio",
                                  address |-> wm.address])]
         /\ UNCHANGED portfolioInvestments

\* wallet.js loadPortfolio(), up to its fetch
loadPortfolio(wm, aw) ==
    IF ~wm.isConnected
    THEN /\ request' = NoRequest
         /\ awaiting' = aw
         /\ portfolioInvestments' =
                Message("Connect your wallet to view your portfolio")
    ELSE /\ request' = PortfolioRequest("loadPortfolio", wm.address, NoHeader)
         /\ awaiting' = [aw EXCEPT !.portfolio =
                            Some([by |-> "loadPortfolio",
                                  address |-> wm.address])]
         /\ UNCHANGED portfolioInvestments

\* the page loaded anew over the stored keys ls: every script variable is
\* reset, app.js checkAuthStatus and auth.js loadAuthState read the keys,
\* and the two portfolio loaders find no wallet (the one run last leaves
\* its message)
Reloaded(ls, hasMetaMask) ==
    /\ authToken' = ls.authToken
    /\ authState' =
          IF ls.bond_platform_token # Null /\ ls.bond_platform_user # Null
          THEN [authToken |-> ls.bond_platform_token,
                currentUser |-> ls.bond_platform_user]
          ELSE [authToken |-> Null, currentUser |-> Null]
    /\ walletManager' = NewWalletManager(hasMetaMask)
    /\ selectedBond' = None
    /\ currentBondId' = Null
    /\ awaiting' = Settled
    /\ request' = NoRequest
    /\ response' = NoResponse
    /\ portfolioInvestments' \in
          {Message("Connect your wallet to view your portfolio")} \cup
          IF ls.authToken # Null
          THEN {Message("Please connect your wallet to view your portfolio")}
          ELSE {}

\* the user reloads the page, or a script's window.location.reload() runs
Reload ==
    /\ \E mm \in BOOLEAN : Reloaded(localStorage, mm)
    /\ UNCHANGED localStorage

\* app.js handleLogin, the server having accepted the credentials
HandleLogin ==
    \E token \in Tokens :
        /\ authToken' = token
        /\ localStorage' = [localStorage EXCEPT !.authToken = token]
        /\ loadUserPortfolio(token, walletManager, awaiting)
        /\ response' = NoResponse
        /\ UNCHANGED << authState, walletManager, selectedBond,
                        currentBondId >>

\* app.js handleRegister, the server having accepted the registration
HandleRegister ==
    \E token \in Tokens :
        /\ authToken' = token
        /\ localStorage' = [localStorage EXCEPT !.authToken = token]
        /\ Quiet(awaiting)
        /\ response' = NoResponse
        /\ UNCHANGED << authState, walletManager, selectedBond,
                        currentBondId >>

\* app.js logout: forgets the token, disconnects the wallet, reloads
Logout ==
    LET ls == [localStorage EXCEPT !.authToken = Null]
    IN  /\ localStorage' = ls
        /\ Reloaded(ls, walletManager.hasMetaMask)

\* auth.js saveAuthState, called by the login and the register form once
\* the server has answered with a token
SaveAuthState ==
    \E token \in Tokens :
        /\ localStorage' = [localStorage EXCEPT
                               !.bond_platform_token = token,
                               !.bond_platform_user = User]
        /\ authState' = [authToken |-> token, currentUser |-> User]
        /\ Quiet(awaiting)
        /\ response' = NoResponse
        /\ UNCHANGED << authToken, walletManager, selectedBond,
                        currentBondId >>

\* handleLogout with a clearAuthState that forgets currentUser
HandleLogout_KeepsUser ==
    /\ localStorage' = [localStorage EXCEPT !.bond_platform_token = Null,
                                            !.bond_platform_user = Null]
    /\ authState' = [authState EXCEPT !.authToken = Null]
    /\ Quiet(awaiting)
    /\ response' = NoResponse
    /\ UNCHANGED << authToken, walletManager, selectedBond, currentBondId >>

\* auth.js handleLogout: clearAuthState and nothing else
HandleLogout ==
    /\ localStorage' = [localStorage EXCEPT !.bond_platform_token = Null,
                                            !.bond_platform_user = Null]
    /\ authState' = [authToken |-> Null, currentUser |-> Null]
    /\ Quiet(awaiting)
    /\ response' = NoResponse
    /\ UNCHANGED << authToken, walletManager, selectedBond, currentBondId >>

\* what runs once walletManager.connect() has returned without throwing:
\* loadUserPortfolio after app.js connectWallet, loadPortfolio after the
\* click handler of the connect button
AfterConnect(by, wm, aw) ==
    IF by = "connectWallet"
    THEN loadUserPortfolio(authToken, wm, aw)
    ELSE loadPortfolio(wm, aw)

\* walletManager.connect() up to its await, called by app.js connectWallet
\* or by the click handler of #connectWalletBtn.  Not logged in: it returns
\* null.  No MetaMask: the simulated wallet is connected at once.
connect(by) ==
    /\ awaiting.connect = "none"
    /\ IF ~isAuthenticated
       THEN /\ UNCHANGED walletManager
            /\ AfterConnect(by, walletManager, awaiting)
       ELSE IF walletManager.hasMetaMask
       THEN /\ UNCHANGED walletManager
            /\ Quiet([awaiting EXCEPT !.connect = by])
       ELSE LET wm == [walletManager EXCEPT !.address = SimulatedAddress,
                                            !.isConnected = TRUE]
            IN  /\ walletManager' = wm
                /\ AfterConnect(by, wm, awaiting)
    /\ response' = NoResponse
    /\ UNCHANGED << authToken, authState, localStorage, selectedBond,
                    currentBondId >>

ConnectWallet == connect("connectWallet")

ConnectWalletBtn == connect("connectWalletBtn")

\* connect() after eth_requestAccounts resolved with the accounts given
\* (one account, or none)
connectResolved(by, aw, accounts) ==
    IF accounts # << >>
    THEN LET wm == [walletManager EXCEPT !.address = accounts[1],
                                         !.isConnected = TRUE]
         IN  /\ walletManager' = wm
             /\ thrown' = None
             /\ AfterConnect(by, wm, aw)
    ELSE /\ UNCHANGED walletManager
         /\ thrown' = None
         /\ AfterConnect(by, walletManager, aw)

\* the same with every failure taken to the simulated wallet
connectRejected_AlwaysFallsBack(by, aw, error) ==
    LET wm == [walletManager EXCEPT !.address = SimulatedAddress,
                                    !.isConnected = TRUE]
    IN  /\ walletManager' = wm
        /\ thrown' = None
        /\ AfterConnect(by, wm, aw)

\* the catch block of connect(): a pending request and a rejection by the
\* user are thrown on to the caller, any other error falls back to the
\* simulated wallet
connectRejected(by, aw, error) ==
    IF \/ error.code = RequestPending
       \/ error.code = UserRejected
       \/ error.denied
    THEN /\ UNCHANGED walletManager
         /\ thrown' = Some(error)
         /\ Quiet(aw)
    ELSE LET wm == [walletManager EXCEPT !.address = SimulatedAddress,
                                         !.isConnected = TRUE]
         IN  /\ walletManager' = wm
             /\ thrown' = None
             /\ AfterConnect(by, wm, aw)

\* eth_requestAccounts settles: with an account, with no account, or with
\* an error
ConnectSettled ==
    /\ awaiting.connect # "none"
    /\ LET by == awaiting.connect
           aw == [awaiting EXCEPT !.connect = "none"]
       IN  \/ \E a \in WalletAddresses : connectResolved(by, aw, << a >>)
           \/ connectResolved(by, aw, << >>)
           \/ \E error \in ProviderErrors : connectRejected(by, aw, error)
    /\ response' = NoResponse
    /\ UNCHANGED << authToken, authState, localStorage, selectedBond,
                    currentBondId >>

\* app.js disconnectWallet
DisconnectWallet ==
    /\ walletManager' = disconnect(walletManager)
    /\ Quiet(awaiting)
    /\ response' = NoResponse
    /\ UNCHANGED << authToken, authState, localStorage, selectedBond,
                    currentBondId >>

\* the click handler of #disconnectWalletBtn
DisconnectWalletBtn ==
    /\ walletManager' = disconnect(walletManager)
    /\ loadPortfolio(disconnect(walletManager), awaiting)
    /\ response' = NoResponse
    /\ UNCHANGED << authToken, authState, localStorage, selectedBond,
                    currentBondId >>

\* the accountsChanged listener registered when MetaMask is present
AccountsChanged ==
    /\ walletManager.hasMetaMask
    /\ \/ \E a \in WalletAddresses :
             walletManager' = [walletManager EXCEPT !.address = a]
       \/ walletManager' = disconnect(walletManager)
    /\ Quiet(awaiting)
    /\ response' = NoResponse
    /\ UNCHANGED << authToken, authState, localStorage, selectedBond,
                    currentBondId >>

\* app.js selectBond
SelectBond ==
    /\ \E bondId \in BondIds :
          selectedBond' =
             IF authToken # Null /\ walletManager.isConnected
             THEN Some(ServerBond(bondId))
             ELSE selectedBond
    /\ Quiet(awaiting)
    /\ response' = NoResponse
    /\ UNCHANGED << authToken, authState, localStorage, walletManager,
                    currentBondId >>

\* wallet.js openInvestmentModal
OpenInvestmentModal ==
    /\ \E bondId \in BondIds :
          currentBondId' =
             IF walletManager.isConnected THEN bondId ELSE currentBondId
    /\ Quiet(awaiting)
    /\ response' = NoResponse
    /\ UNCHANGED << authToken, authState, localStorage, walletManager,
                    selectedBond >>

\* app.js handleInvestment, up to its fetch
HandleInvestment ==
    /\ \E amount \in FormAmounts :
          IF selectedBond = None
             \/ amount < selectedBond[1].minimumInvestment
          THEN Quiet(awaiting)
          ELSE /\ request' =
                     InvestRequest("handleInvestment",
                                   IF walletManager.address # Null
                                   THEN walletManager.address
                                   ELSE Fabricated,
                                   Bearer(authToken), amount,
                                   selectedBond[1].id)
               /\ awaiting' = [awaiting EXCEPT !.invest = "handleInvestment"]
               /\ UNCHANGED portfolioInvestments
    /\ response' = NoResponse
    /\ UNCHANGED << authToken, authState, localStorage, walletManager,
                    selectedBond, currentBondId >>

\* the submit handler wallet.js puts on #investmentForm, up to its await
\* of walletManager.simulateTransaction
SubmitInvestmentForm ==
    /\ currentBondId # Null
    /\ awaiting.submit = None
    /\ \E amount \in FormAmounts :
          IF ~isAuthenticated \/ ~walletManager.isConnected \/ amount <= 0
          THEN Quiet(awaiting)
          ELSE Quiet([awaiting EXCEPT !.submit = Some(amount)])
    /\ response' = NoResponse
    /\ UNCHANGED << authToken, authState, localStorage, walletManager,
                    selectedBond, currentBondId >>

\* simulateTransaction resolves and the submit handler sends its request
SimulateTransactionDone ==
    /\ awaiting.submit # None
    /\ request' = InvestRequest("setupInvestmentForm", walletManager.address,
                                Bearer(getAuthToken), awaiting.submit[1],
                                currentBondId)
    /\ awaiting' = [awaiting EXCEPT !.submit = None,
                                    !.invest = "setupInvestmentForm"]
    /\ response' = NoResponse
    /\ UNCHANGED << authToken, authState, localStorage, walletManager,
                    selectedBond, currentBondId, portfolioInvestments >>

\* the server answers POST /invest: on success handleInvestment runs
\* loadUserPortfolio, and the submit handler of wallet.js runs
\* loadPortfolio if the wallet is connected
InvestResponse ==
    /\ awaiting.invest # "none"
    /\ LET by == awaiting.invest
           aw == [awaiting EXCEPT !.invest = "none"]
       IN  \E ok \in BOOLEAN :
              IF ~ok THEN Quiet(aw)
              ELSE IF by = "handleInvestment"
              THEN loadUserPortfolio(authToken, walletManager, aw)
              ELSE IF walletManager.isConnected
              THEN loadPortfolio(walletManager, aw)
              ELSE Quiet(aw)
    /\ response' = NoResponse
    /\ UNCHANGED << authToken, authState, localStorage, walletManager,
                    selectedBond, currentBondId >>

\* the server answers GET /portfolio/{address}.  loadUserPortfolio tells
\* 401 from the other failures; loadPortfolio reads the body whatever the
\* status, and the body of a refusal has no totalInvested to format
PortfolioResponse ==
    /\ awaiting.portfolio # None
    /\ \E status \in Statuses :
          LET by == awaiting.portfolio[1].by
              address == awaiting.portfolio[1].address
          IN  /\ response' = [by |-> by, status |-> status]
              /\ portfolioInvestments' =
                    IF status = StatusOk THEN Portfolio(address)
                    ELSE IF by = "loadUserPortfolio"
                    THEN IF status = Unauthorized
                         THEN Message(
                                "Unauthorized: Invalid or expired session")
                         ELSE Message("Failed to load portfolio")
                    ELSE Message("Failed to load portfolio. Please check if the backend is running.")
    /\ awaiting' = [awaiting EXCEPT !.portfolio = None]
    /\ request' = NoRequest
    /\ UNCHANGED << authToken, authState, localStorage, walletManager,
                    selectedBond, currentBondId >>

\* a step in which no contract is called
ChainIdle ==
    /\ result' = NoCall
    /\ UNCHANGED << now, contractVars, position, closedBefore, executing,
                    sample, platformVars >>

\* a step of the page in which connect() throws nothing and the admin
\* panel is not used
PageStep ==
    /\ thrown' = None
    /\ UNCHANGED adminVars
    /\ ChainIdle

ClientNext ==
    \/ Reload /\ PageStep
    \/ HandleLogin /\ PageStep
    \/ HandleRegister /\ PageStep
    \/ Logout /\ PageStep
    \/ SaveAuthState /\ PageStep
    \/ HandleLogout /\ PageStep
    \/ ConnectWallet /\ PageStep
    \/ ConnectWalletBtn /\ PageStep
    \/ ConnectSettled /\ UNCHANGED adminVars /\ ChainIdle
    \/ DisconnectWallet /\ PageStep
    \/ DisconnectWalletBtn /\ PageStep
    \/ AccountsChanged /\ PageStep
    \/ SelectBond /\ PageStep
    \/ OpenInvestmentModal /\ PageStep
    \/ HandleInvestment /\ PageStep
    \/ SubmitInvestmentForm /\ PageStep
    \/ SimulateTransactionDone /\ PageStep
    \/ InvestResponse /\ PageStep
    \/ PortfolioResponse /\ PageStep

---------------------------------------------------------------------------
(* The admin panel of auth.js, and the server's side of a delete.  The     *)
(* server is not part of the sources followed here: its catalog, its       *)
(* positions and its answer to DELETE /api/admin/bonds/{id} are written     *)
(* from the design, which lets a bond be deleted only when no investor      *)
(* holds principal in it.                                                   *)

\* a DELETE request and what became of it
DeleteRequest(bondId, authorization, state) ==
    [bondId |-> bondId, authorization |-> authorization, state |-> state]

\* saveAdminState, the server having accepted the admin's credentials
HandleAdminLogin ==
    /\ \E token \in Tokens : adminToken' = token
    /\ UNCHANGED << adminDelete, server >>

\* handleAdminLogout, confirmed: clearAdminState
HandleAdminLogout ==
    /\ adminToken' = Null
    /\ UNCHANGED << adminDelete, server >>

\* deleteBond(bondId) up to its fetch: after the confirm dialog the
\* request is sent, whatever the bond and whoever holds principal in it
deleteBond(bondId, confirmed) ==
    IF ~confirmed
    THEN UNCHANGED adminVars
    ELSE /\ adminDelete' =
               Some(DeleteRequest(bondId, Bearer(adminToken), "pending"))
         /\ UNCHANGED << adminToken, server >>

\* the server's handling of DELETE: refused without an admin session, for
\* a bond it does not list, and while any investor holds principal
serverDelete(srv, req) ==
    IF /\ req.authorization \in {Bearer(t) : t \in Tokens}
       /\ req.bondId \in srv.bonds
       /\ outstanding(srv, req.bondId) = 0
    THEN [srv EXCEPT !.bonds = @ \ {req.bondId}]
    ELSE srv

\* the server's invest: the investor's principal in the bond grows
ledgerInvest(srv, investor, bondId, amount) ==
    [srv EXCEPT !.principal[bondId][investor] = @ + amount]

\* the server's redeem: the investor's principal in the bond is reset
ledgerRedeem(srv, investor, bondId) ==
    [srv EXCEPT !.principal[bondId][investor] = 0]

\* a step of the admin panel or the server: the investor's page and the
\* contracts are left alone
PanelStep ==
    /\ UNCHANGED << authToken, authState, localStorage, walletManager,
                    selectedBond, currentBondId, awaiting, request, response,
                    portfolioInvestments, thrown >>
    /\ ChainIdle

DeleteBond ==
    /\ IF adminDelete = None THEN TRUE
       ELSE adminDelete[1].state # "pending"
    /\ \E bondId \in BondIds, confirmed \in BOOLEAN :
          deleteBond(bondId, confirmed)
    /\ PanelStep

\* the server answers the DELETE; deleteBond reads response.ok
DeleteResponse ==
    /\ adminDelete # None
    /\ adminDelete[1].state = "pending"
    /\ server' = serverDelete(server, adminDelete[1])
    /\ adminDelete' =
          Some([adminDelete[1] EXCEPT
                   !.state = IF server' # server THEN "ok" ELSE "failed"])
    /\ UNCHANGED adminToken
    /\ PanelStep

LedgerInvest ==
    /\ \E i \in Investors, b \in server.bonds :
          /\ server.principal[b][i] = 0
          /\ server' = ledgerInvest(server, i, b, MinimumInvestment)
    /\ UNCHANGED << adminToken, adminDelete >>
    /\ PanelStep

LedgerRedeem ==
    /\ \E i \in Investors, b \in server.bonds :
          /\ server.principal[b][i] > 0
          /\ server' = ledgerRedeem(server, i, b)
    /\ UNCHANGED << adminToken, adminDelete >>
    /\ PanelStep

\* the two places a bond is listed, with the calls that could remove it
CatalogNext ==
    \/ CreateBond
    \/ HandleAdminLogin /\ PanelStep
    \/ HandleAdminLogout /\ PanelStep
    \/ DeleteBond
    \/ DeleteResponse
    \/ LedgerInvest
    \/ LedgerRedeem

SpecCatalog == Init /\ [][CatalogNext]_vars

\* the client is followed beside a bond the admin deployed
InitAdmin == Init /\ owner = Admin

SpecClient == InitAdmin /\ [][ClientNext]_vars

---------------------------------------------------------------------------
(* Properties *)

\* the instants block.timestamp takes in the model
Instants == {k * Period : k \in 0 .. MaxTicks}

C2_Conservation ==
    bondInfo.totalSupply =
        SumOver([i \in Investors |-> principal(i)], Investors)

\* C3: Every successful claimInterest pays accrue(principal, couponRate,
\* now - t), t being the instant the caller's own principal or claim last
\* changed.
C3_ClaimPaysOwnAccrual ==
    [][\A i \in Investors :
         (result'.op = "claimInterest" /\ result'.ok /\ result'.caller = i)
         => result'.amount =
              accrue(principal(i), bondInfo.couponRate,
                     now - position[i].lastAccrual)]_vars

\* C4: Positions are independent.  An invest, claimInterest or redeem by
\* investor a leaves unchanged, at every later instant, the interest another
\* investor b can claim.
C4_PositionsIndependent ==
    [][\A a \in Investors, b \in Investors :
         (a # b /\ result'.caller = a
            /\ result'.op \in {"invest", "claimInterest", "redeem"})
         => \A t \in Instants :
              t >= now => accruedAt(b, t)' = accruedAt(b, t)]_vars

\* C5: Realize-then-add.  A successful invest by an investor who already
\* holds principal P credits accrue(P, couponRate, now - own accrual start)
\* to the investor's claimedInterest and restarts the investor's accrual at
\* now, so that the interest claimable at a later instant t is
\* accrue(P + amount, couponRate, t - now).
C5_RealizeThenAdd ==
    [][\A i \in Investors :
         (result'.op = "invest" /\ result'.ok /\ result'.caller = i
            /\ principal(i) > 0)
         => /\ claimedInterest'[i] =
                 claimedInterest[i]
                   + accrue(principal(i), bondInfo.couponRate,
                            now - position[i].lastAccrual)
            /\ \A t \in Instants :
                 t >= now =>
                   accruedAt(i, t)' =
                     accrue(principal(i) + result'.amount,
                            bondInfo.couponRate, t - now)]_vars

\* C6: Claim idempotence.  A claimInterest by an investor at the instant of
\* that investor's last successful claim reverts and changes nothing; the
\* revert is "No interest to claim" whenever the investor still holds
\* principal.
C6_ClaimIdempotent ==
    [][\A i \in Investors :
         (result'.op = "claimInterest" /\ result'.caller = i
            /\ position[i].lastClaim = now)
         => /\ ~result'.ok
            /\ result'.err \in {"No interest to claim", "No bond tokens held"}
            /\ principal(i) > 0 => result'.err = "No interest to claim"
            /\ UNCHANGED contractVars]_vars

\* C6 witness: a second claim followed a successful one at the same instant,
\* the position still held.
C6_Witness ==
    /\ result.op = "claimInterest" /\ ~result.ok
    /\ result.err = "No interest to claim"
    /\ result.caller \in Investors
    /\ position[result.caller].lastClaim = now
    /\ claimedInterest[result.caller] > 0

\* C7: Redemption stays valid after maturity.  At or after maturity a
\* redeem by an investor holding principal succeeds and pays that principal
\* in full.
C7_RedeemValidAfterMaturity ==
    [][\A i \in Investors :
         (result'.op = "redeem" /\ result'.caller = i
            /\ now >= bondInfo.maturityDate /\ principal(i) > 0)
         => (result'.ok /\ result'.amount = principal(i))]_vars

\* C8: redeem succeeds only at or after maturity and with principal > 0; a
\* redeem before maturity reverts as not matured, a redeem with no principal
\* reverts as no position, and either leaves all contract state unchanged.
C8_RedeemPreconditions ==
    [][\A i \in Investors :
         (result'.op = "redeem" /\ result'.caller = i)
         => /\ result'.ok =>
                 (now >= bondInfo.maturityDate /\ principal(i) > 0)
            /\ now < bondInfo.maturityDate =>
                 /\ ~result'.ok
                 /\ result'.err = "Bond has not matured yet"
                 /\ UNCHANGED contractVars
            /\ (now >= bondInfo.maturityDate /\ principal(i) = 0) =>
                 /\ ~result'.ok
                 /\ result'.err = "No tokens to redeem"
                 /\ UNCHANGED contractVars]_vars

\* C8 witness: a holder of principal tried to redeem before maturity.
C8_Witness ==
    /\ result.op = "redeem" /\ ~result.ok
    /\ result.err = "Bond has not matured yet"
    /\ result.caller \in Investors
    /\ principal(result.caller) > 0

\* C9: A successful redeem pays the caller exactly the principal held just
\* before the call, moved from the bond contract's stablecoin to the caller,
\* and leaves the caller's principal at 0.
C9_RedeemPaysPrincipal ==
    [][\A i \in Investors :
         (result'.op = "redeem" /\ result'.ok /\ result'.caller = i)
         => /\ result'.amount = principal(i)
            /\ stable'[i] = stable[i] + principal(i)
            /\ stable'[Bond] = stable[Bond] - principal(i)
            /\ principal(i)' = 0]_vars

\* C9 witness: a redeem succeeded while interest was still accruing on the
\* redeemed principal.
C9_Witness ==
    /\ result.op = "redeem" /\ result.ok
    /\ result.amount = 2 * Unit
    /\ bondInfo.lastInterestPayment < now

\* C10: A successful redeem first realizes the accrued interest as
\* claimInterest would: claimedInterest grows by the interest accrued on the
\* position up to now.
C10_RedeemRealizesInterest ==
    [][\A i \in Investors :
         (result'.op = "redeem" /\ result'.ok /\ result'.caller = i)
         => claimedInterest'[i] =
              claimedInterest[i] + calculateAccruedInterest(i)]_vars

\* C11: invest never succeeds on a bond closed for investment or at or
\* after the maturity date: such a call, by any caller with any amount,
\* reverts and changes no contract state.
C11_InvestNeedsActiveBond ==
    [][\A i \in Investors :
         (result'.op = "invest" /\ result'.caller = i
            /\ (~bondInfo.isActive \/ now >= bondInfo.maturityDate))
         => /\ ~result'.ok
            /\ result'.err \in {"Bond is no longer accepting investments",
                                "Bond has matured"}
            /\ UNCHANGED contractVars]_vars

\* C11 witness: an invest was refused on a closed bond, before maturity, by
\* a caller whose balance and allowance would have covered an investment.
C11_Witness ==
    /\ result.op = "invest" /\ ~result.ok
    /\ result.err = "Bond is no longer accepting investments"
    /\ now < bondInfo.maturityDate
    /\ result.caller \in Investors
    /\ stable[result.caller] >= Unit
    /\ allowance[result.caller] >= Unit

\* C13: invest, claimInterest and redeem are all-or-nothing: a call that
\* fails, at a require or at the stablecoin transfer, leaves principal,
\* investments, claimedInterest, the accrual timestamp, totalSupply and all
\* stablecoin balances as they were.
C13_AllOrNothing ==
    [][(result'.op \in {"invest", "claimInterest", "redeem"} /\ ~result'.ok)
       => UNCHANGED contractVars]_vars

\* C13 witness: a redeem passed its requires and failed at the stablecoin
\* transfer, after the burn that precedes the transfer.
C13_Witness ==
    /\ result.op = "redeem" /\ ~result.ok
    /\ result.err = "ERC20: transfer reverted"
    /\ principal(result.caller) > 0

\* C19: bond ids are sequential.  The k-th successful createBond
\* (k = 0, 1, 2, ...) returns id k and raises getBondCount() by exactly
\* one, and the bond registered under that id is active with a totalSupply
\* of zero.
C19_SequentialIds ==
    [][(result'.op = "createBond" /\ result'.ok)
       => /\ result'.amount = created
          /\ getBondCount' = getBondCount + 1
          /\ bondTokens'[created] = bonds'[getBondCount']
          /\ deployed'[bondTokens'[created]].isActive
          /\ deployed'[bondTokens'[created]].totalSupply = 0]_vars

\* C19 witness: a second createBond succeeded and returned id 1.
C19_Witness ==
    /\ result.op = "createBond" /\ result.ok
    /\ result.amount = 1
    /\ getBondCount = 2

\* C20: every registered bond has a maturity date strictly after its issue
\* date and a coupon rate of at most 10000 basis points, because createBond
\* refuses other terms.
C20_RegisteredTermsValid ==
    \A i \in 1 .. Len(bonds) :
        /\ deployed[bonds[i]].maturityDate > deployed[bonds[i]].issueDate
        /\ deployed[bonds[i]].couponRate <= BasisPoints

\* C12: an investment below the bond's minimum investment is never
\* submitted: every invest request the client sends carries an amount of
\* at least the minimumInvestment of the bond it names.
C12_NoInvestBelowMinimum ==
    request.kind = "invest"
    => request.amount >= ServerBond(request.bondId).minimumInvestment

\* C14: the client sends a portfolio request only while the user is logged
\* in (a session token is held, by app.js or by auth.js) and a wallet is
\* connected.
C14_PortfolioNeedsLoginAndWallet ==
    request.kind = "portfolio"
    => /\ authToken # Null \/ getAuthToken # Null
       /\ walletManager.isConnected

\* C15: isolation.  The address a portfolio request names is the address
\* of the wallet connected at that moment, and a portfolio on display is
\* that of the wallet's current address.
C15_PortfolioOfConnectedWallet ==
    /\ request.kind = "portfolio"
       => /\ walletManager.isConnected
          /\ request.address = walletManager.address
    /\ portfolioInvestments.owner # Null
       => portfolioInvestments.owner = walletManager.address

\* C16: every portfolio request and every invest request carries the
\* current session token in an Authorization: Bearer header: the token of
\* app.js for the requests of app.js, that of auth.js for the requests of
\* wallet.js.
C16_RequestsCarryToken ==
    request.kind \in {"portfolio", "invest"}
    => LET token == IF request.by \in {"loadUserPortfolio",
                                       "handleInvestment"}
                    THEN authToken
                    ELSE getAuthToken
       IN  /\ token # Null
           /\ request.authorization = Bearer(token)

\* C17: a refused portfolio request is reported by its cause: a 401 by
\* the 'Invalid or expired session' message, a 403 by a message of its
\* own, and neither by a generic load failure.
C17_RefusalsDistinguished ==
    LET generic == {"Failed to load portfolio",
                    "Failed to load portfolio. Please check if the backend is running."}
        session == "Unauthorized: Invalid or expired session"
    IN  /\ response.status = Unauthorized
           => portfolioInvestments.text = session
        /\ response.status = Forbidden
           => portfolioInvestments.text \notin generic \cup {session}

\* C18: every invest request names as investorAddress the address of the
\* wallet connected when the request is sent.
C18_InvestNamesConnectedWallet ==
    request.kind = "invest"
    => /\ walletManager.isConnected
       /\ request.address = walletManager.address

\* C23: closing a bond changes only whether new investment is accepted.
\* A successful closeBond changes nothing but bondInfo.isActive; and
\* claimInterest and redeem never read the flag: on a closed bond as on an
\* open one, each succeeds exactly when its own conditions hold (tokens
\* held, interest accrued or maturity reached, stablecoin available) and
\* then pays the same amount, the accrued interest or the token balance,
\* and leaves the flag as it was.
C23_CloseChangesOnlyTheFlag ==
    [][/\ (result'.op = "closeBond" /\ result'.ok)
          => /\ bondInfo' = [bondInfo EXCEPT !.isActive = FALSE]
             /\ UNCHANGED << owner, balances, investments, claimedInterest,
                             stable, allowance >>
       /\ \A i \in Investors :
             /\ (result'.op = "claimInterest" /\ result'.caller = i)
                => /\ result'.ok <=> /\ balances[i] > 0
                                     /\ accruedAt(i, now) > 0
                                     /\ stable[Bond] >= accruedAt(i, now)
                   /\ result'.ok => result'.amount = accruedAt(i, now)
                   /\ bondInfo'.isActive = bondInfo.isActive
             /\ (result'.op = "redeem" /\ result'.caller = i)
                => /\ result'.ok <=> /\ now >= bondInfo.maturityDate
                                     /\ balances[i] > 0
                                     /\ stable[Bond] >= balances[i]
                   /\ result'.ok => result'.amount = balances[i]
                   /\ bondInfo'.isActive = bondInfo.isActive]_vars

\* C23 witness: on a closed bond an investor claimed interest and was paid.
C23_Witness ==
    /\ ~bondInfo.isActive
    /\ result.op = "claimInterest" /\ result.ok
    /\ result.amount > 0

\* C26: for every investor claimedInterest never decreases, and it grows
\* only in that investor's own successful claimInterest, by the amount that
\* call pays to the investor.
C26_ClaimedInterestMonotone ==
    [][\A i \in Investors :
         /\ claimedInterest'[i] >= claimedInterest[i]
         /\ claimedInterest'[i] # claimedInterest[i]
            => /\ result'.op = "claimInterest" /\ result'.ok
               /\ result'.caller = i
               /\ claimedInterest'[i] - claimedInterest[i] = result'.amount
               /\ stable'[i] - stable[i] = result'.amount]_vars

\* C26 witness: an investor with interest claimed earlier has redeemed.
C26_Witness ==
    /\ result.op = "redeem" /\ result.ok
    /\ claimedInterest[result.caller] > 0

\* C27: a position with principal 0 accrues nothing and cannot be claimed.
\* For an investor holding no tokens calculateAccruedInterest is 0 at every
\* instant, and the investor's claimInterest reverts with "No bond tokens
\* held" and changes no state.
C27_NoPrincipalNoInterest ==
    [][\A i \in Investors :
         principal(i) = 0
         => /\ \A t \in Instants :
                  t >= bondInfo.lastInterestPayment => accruedAt(i, t) = 0
            /\ (result'.op = "claimInterest" /\ result'.caller = i)
               => /\ ~result'.ok
                  /\ result'.err = "No bond tokens held"
                  /\ UNCHANGED contractVars]_vars

\* C27 witness: after maturity an investor who has redeemed tries to claim
\* interest while the bond still counts a total supply.
C27_Witness ==
    /\ result.op = "claimInterest" /\ ~result.ok
    /\ result.err = "No bond tokens held"
    /\ position[result.caller].redeemed
    /\ bondInfo.totalSupply > 0
    /\ now > bondInfo.lastInterestPayment

\* C30: read path and write path agree.  What a successful claimInterest
\* credits to claimedInterest and pays out equals what the view
\* calculateAccruedInterest returns for the caller at the same instant.
C30_ClaimEqualsView ==
    [][\A i \in Investors :
         (result'.op = "claimInterest" /\ result'.ok /\ result'.caller = i)
         => /\ result'.amount = calculateAccruedInterest(i)
            /\ claimedInterest'[i] =
                  claimedInterest[i] + calculateAccruedInterest(i)
            /\ stable'[i] = stable[i] + calculateAccruedInterest(i)
            /\ stable'[Bond] = stable[Bond] - calculateAccruedInterest(i)
            /\ now' = now]_vars

\* C30 witness: an investor's second claim was paid while the other
\* investor holds principal too.
C30_Witness ==
    /\ result.op = "claimInterest" /\ result.ok
    /\ claimedInterest[result.caller] > result.amount
    /\ \E j \in Investors \ {result.caller} : principal(j) > 0

\* C21: bond lookup by id succeeds exactly for the ids created.  For
\* id < getBondCount(), getBondToken(id) returns the token the id-th
\* createBond deployed (the platform's (id+1)-th contract, registered at
\* that place of bonds); for id >= getBondCount() it reverts with "Bond ID
\* does not exist".  The lookup changes nothing.
C21_LookupExactlyCreated ==
    [][\A c \in Callers, id \in 0 .. MaxBonds :
         getBondToken(c, id)
         => /\ IF id < getBondCount
               THEN /\ result'.ok
                    /\ result'.amount = AddressOf(id + 1)
                    /\ result'.amount = bonds[id + 1]
                    /\ bondIds[result'.amount] = id
               ELSE /\ ~result'.ok
                    /\ result'.err = "Bond ID does not exist"
            /\ UNCHANGED platformVars]_vars

\* C21 witness: with one bond created, a lookup of an id not yet created
\* was refused.
C21_Witness ==
    /\ result.op = "getBondToken" /\ ~result.ok
    /\ getBondCount = 1

\* C22: closing a bond is idempotent.  closeBond by the owner on a bond
\* already closed succeeds and changes no state of the bond.
C22_CloseIdempotent ==
    [][\A c \in Callers :
         (closeBond(c) /\ c = owner /\ ~bondInfo.isActive)
         => /\ result'.ok
            /\ UNCHANGED contractVars]_vars

\* C22 witness: the owner closed a bond that was closed already.
C22_Witness ==
    /\ result.op = "closeBond" /\ result.ok
    /\ closedBefore

\* C24: administrative functions are owner-only.  closeBond on the
\* BondToken succeeds when its owner calls and createBond on the
\* BondPlatform when the platform's owner (the deploying admin) calls; a
\* call by any other account reverts and leaves the bond's state and the
\* registry unchanged.
C24_OwnerOnly ==
    [][/\ result'.op = "closeBond"
          => IF result'.caller = owner
             THEN result'.ok
             ELSE /\ ~result'.ok
                  /\ result'.err = "Ownable: caller is not the owner"
                  /\ UNCHANGED << contractVars, platformVars >>
       /\ result'.op = "createBond"
          => IF result'.caller = Admin
             THEN result'.ok
             ELSE /\ ~result'.ok
                  /\ result'.err = "Ownable: caller is not the owner"
                  /\ UNCHANGED << contractVars, platformVars >>]_vars

\* C24 witness: after the admin has created a bond on the platform, an
\* account that does not own the bond token called closeBond and was
\* refused.
C24_Witness ==
    /\ result.op = "closeBond" /\ ~result.ok
    /\ result.caller # owner
    /\ created >= 1
    /\ bondInfo.isActive

\* C25: while invest, claimInterest or redeem is executing, a nested call
\* to any state-changing function of the same BondToken fails: during the
\* outer call no call has succeeded and the bond's flag is as the outer
\* call found it.
C25_NoNestedCallSucceeds ==
    _status = "ENTERED"
    => /\ result.op = "none" \/ ~result.ok
       /\ bondInfo.isActive = executing[1].saved.bondInfo.isActive

\* C28: the accrual function is monotone and zero at zero elapsed time.
\* For every principal P, rate R in 0..10000 and elapsed time E evaluated:
\* the value is no more than the value at any longer elapsed time and at
\* any larger principal, and the value at elapsed time 0 is 0.
C28_AccrueMonotone ==
    sample.accrued # -1
    => /\ sample.accrued = accrue(sample.P, sample.R, sample.E)
       /\ \A E2 \in Elapsed :
             sample.E <= E2
             => sample.accrued <= accrue(sample.P, sample.R, E2)
       /\ \A P2 \in Principals :
             sample.P <= P2
             => sample.accrued <= accrue(P2, sample.R, sample.E)
       /\ accrue(sample.P, sample.R, 0) = 0

\* C28 witness: a positive accrual was computed for a principal and an
\* elapsed time that are not the largest evaluated.
C28_Witness ==
    /\ sample.accrued > 0
    /\ sample.P < MaxPrincipal
    /\ sample.E < MaxQuarters * Period

\* a * b \div c for naturals, computed in parts that stay small:
\* with a = q*c + r and b = s*c + t, a*b = c*(q*b + r*s) + r*t
mulDiv(a, b, c) ==
    (a \div c) * b + (a % c) * (b \div c) + ((a % c) * (b % c)) \div c

\* the single truncated quotient of P*R*E by 10000 * 365 days; dividing by
\* 10000 and then by 365 days, each time truncating, gives the same as
\* dividing once by the product
singleQuotient(P, R, E) == mulDiv(P * R, E, BasisPoints) \div SecondsPerYear

\* C29: all multiplications are performed before any division: the
\* accrued interest computed equals the single truncated quotient of P*R*E
\* by 10000 * 365 * 86400.
C29_MultiplyBeforeDivide ==
    sample.accrued # -1
    => sample.accrued = singleQuotient(sample.P, sample.R, sample.E)

\* C31: the recorded principal of every investor, investments[investor],
\* equals the principal that investor can still redeem: it grows with each
\* invest and is back to 0 after a successful redeem.
C31_InvestmentsArePrincipal ==
    \A i \in Investors : investments[i] = principal(i)

\* C39: the bond registry is append-only and its three indexes agree.
\* After every step, for every id below getBondCount(): bonds[id] and
\* bondTokens[id] are the same address, bondIds maps that address back to
\* id, and no other id has that address; getBondCount() has not decreased
\* and every entry that existed before the step is unchanged.
C39_RegistryAppendOnly ==
    [][/\ \A id \in 0 .. getBondCount' - 1 :
             /\ bonds'[id + 1] = bondTokens'[id]
             /\ bondTokens'[id] # AddressZero
             /\ bondIds'[bonds'[id + 1]] = id
             /\ \A other \in 0 .. getBondCount' - 1 :
                    other # id => bonds'[other + 1] # bonds'[id + 1]
       /\ getBondCount' >= getBondCount
       /\ \A id \in 0 .. getBondCount - 1 :
             /\ bonds'[id + 1] = bonds[id + 1]
             /\ bondTokens'[id] = bondTokens[id]
             /\ bondIds'[bonds[id + 1]] = bondIds[bonds[id + 1]]]_vars

\* C39 witness: two bonds are registered and the second is found under
\* id 1 by a lookup.
C39_Witness ==
    /\ getBondCount = 2
    /\ result.op = "getBondToken" /\ result.ok
    /\ result.amount = bonds[2]
    /\ bondIds[bonds[2]] = 1

\* C33: the closed-for-investment state is reachable by administration.
\* For a bond created through BondPlatform.createBond, whose owner is the
\* platform contract, the platform owner's closing call leaves the bond
\* closed, so that invest is rejected as closed before maturity.
C33_PlatformOwnerCloses ==
    (/\ owner = Platform
     /\ created >= 1
     /\ result.op = "closeBond"
     /\ result.caller = Admin)
    => (~bondInfo.isActive /\ result.ok)

\* C34: closure and maturity are irreversible.  Once the bond is closed it
\* stays closed, once the time has reached the maturity date it stays
\* reached, the maturity date never changes, and from either state no
\* step is an invest that succeeds.
C34_ClosureAndMaturityIrreversible ==
    [][/\ ~bondInfo.isActive => ~bondInfo'.isActive
       /\ now >= bondInfo.maturityDate => now' >= bondInfo'.maturityDate
       /\ bondInfo'.maturityDate = bondInfo.maturityDate
       /\ (~bondInfo.isActive \/ now >= bondInfo.maturityDate)
          => ~(result'.op = "invest" /\ result'.ok)]_vars

\* C34 witness: on a bond closed earlier and now past its maturity date,
\* an invest by a holder of stablecoin and allowance was refused.
C34_Witness ==
    /\ closedBefore
    /\ ~bondInfo.isActive
    /\ now >= bondInfo.maturityDate
    /\ result.op = "invest" /\ ~result.ok
    /\ result.caller \in Investors
    /\ stable[result.caller] >= Unit
    /\ allowance[result.caller] >= Unit

\* C35: a wallet is connected only while the user is logged in: in every
\* state reached by logins, logouts, wallet connects and disconnects and
\* accountsChanged events, a connected walletManager implies that the
\* user holds a session (with auth.js, or else with app.js).
C35_ConnectedOnlyWhileLoggedIn ==
    walletManager.isConnected => (isAuthenticated \/ authToken # Null)

\* C36: WalletManager keeps its two connection fields consistent: in every
\* state reached by connects, disconnects and accountsChanged events,
\* isWalletConnected() is true exactly when getAddress() is not null.
C36_ConnectedIffAddress ==
    walletManager.isConnected <=> walletManager.address # Null

\* C37: when eth_requestAccounts fails because the user rejected the
\* request (code 4001 or a 'User denied' message) or because a request is
\* already pending (code -32002), connect() leaves the wallet as it was
\* and throws the error to its caller, which loads no portfolio; for any
\* other error, and for no other, it connects the simulated wallet.
C37_RejectionLeavesWalletAlone ==
    [][\A error \in ProviderErrors :
         (/\ awaiting.connect # "none"
          /\ connectRejected(awaiting.connect,
                             [awaiting EXCEPT !.connect = "none"], error))
         => IF \/ error.code \in {UserRejected, RequestPending}
               \/ error.denied
            THEN /\ walletManager' = walletManager
                 /\ thrown' = Some(error)
                 /\ request' = NoRequest
            ELSE /\ walletManager'.isConnected
                 /\ walletManager'.address = SimulatedAddress
                 /\ thrown' = None]_vars

\* C37 witness: a logged-in user with MetaMask and no wallet connected
\* rejected the connection request; the error was thrown and the wallet is
\* still not connected.
C37_Witness ==
    /\ thrown # None
    /\ thrown[1].code = UserRejected
    /\ isAuthenticated
    /\ walletManager.hasMetaMask
    /\ ~walletManager.isConnected
    /\ walletManager.address = Null
    /\ awaiting.connect = "none"

\* C38: the session state of auth.js is pairwise consistent.  After every
\* step the token and the user held in memory are both set or both null,
\* isAuthenticated() is true exactly when both are set, and after
\* clearAuthState the values in memory and the stored token and user
\* entries are all absent.
C38_SessionPairwiseConsistent ==
    [][/\ (authState'.authToken = Null) <=> (authState'.currentUser = Null)
       /\ isAuthenticated' <=> (/\ authState'.authToken \in Tokens
                                /\ authState'.currentUser = User)
       /\ (localStorage'.bond_platform_token = Null)
          <=> (localStorage'.bond_platform_user = Null)
       /\ HandleLogout
          => /\ authState' = [authToken |-> Null, currentUser |-> Null]
             /\ ~isAuthenticated'
             /\ localStorage'.bond_platform_token = Null
             /\ localStorage'.bond_platform_user = Null]_vars

\* C38 witness: a user who logged in through auth.js and connected a
\* wallet has logged out through clearAuthState: nothing of the session is
\* left in memory or in storage.
C38_Witness ==
    /\ walletManager.isConnected
    /\ authState = [authToken |-> Null, currentUser |-> Null]
    /\ localStorage.bond_platform_token = Null
    /\ localStorage.bond_platform_user = Null

===========================================================================
